---- MODULE Spec2Model ----
(***************************************************************************)
(* Conversational session engine of the chat desk (src/src/App.tsx; the    *)
(* same engine is repeated in src/unnamed/part_000 and part_002).          *)
(*                                                                         *)
(* Texts are sequences of one-character strings, so that trim() and the    *)
(* concatenations of composeResponse are computed, not assumed.  The two   *)
(* non-ASCII characters of the source literals are written in ASCII here:  *)
(* the bullet as "*" and the em dash as "-".                               *)
(***************************************************************************)
EXTENDS Integers, Sequences, FiniteSets, TLC

VARIABLES
    messages,        \* useState<Message[]>([])            the chat log
    input,           \* useState("")                       the text field
    selectedModel,   \* useState(models[0].id)
    tone,            \* useState<Tone>("Balanced")
    showTimestamps,  \* useState(true)
    typingPause,     \* useState(true)                     simulate delay
    status,          \* useState({text: "Ready", accent: false})
    isSending,       \* useState(false)
    typingTimeout,   \* useRef<number>()                   0 is undefined
    timers,          \* the window's timers, by handle: position of each
                     \* respond callback given to window.setTimeout
    now              \* the reading of the clock, Date.now()

vars == <<messages, input, selectedModel, tone, showTimestamps, typingPause,
          status, isSending, typingTimeout, timers, now>>

settings == <<selectedModel, tone, showTimestamps, typingPause>>

----------------------------------------------------------------------------
(* Bounds of the model *)

\* longest chat log: an accepted submit needs room for its two messages
MaxMsgs == 4
\* number of timers the window hands out
MaxTimers == 2
\* the clock reading at the start, in milliseconds
StartTime == 1000
\* number of milliseconds the clock advances
MaxTicks == 2

----------------------------------------------------------------------------
(* Static data *)

models == <<
    [id |-> "nova-3", label |-> "Nova 3",
     description |-> "Balanced assistant for most tasks"],
    [id |-> "nova-3-mini", label |-> "Nova 3 Mini",
     description |-> "Fast lightweight chat"],
    [id |-> "analysis-pro", label |-> "Analysis Pro",
     description |-> "Analytical model for structured outputs"] >>

ModelIds == {models[i].id : i \in 1..Len(models)}

Tones == {"Balanced", "Concise", "Detailed", "Playful"}

\* toneLead[tone]; a key that is not in the table reads as undefined, which a
\* template literal prints as "undefined"
toneLead(t) ==
    CASE t = "Balanced" -> "Here you go with a balanced take:"
      [] t = "Concise"  -> "Quick answer:"
      [] t = "Detailed" -> "Let me unpack that in detail:"
      [] t = "Playful"  -> "Fun spin coming up:"
      [] OTHER          -> "undefined"

\* values handed to the model <Select>'s onChange (event.target.value, a
\* string): two catalog ids, and one string that is no catalog id, which the
\* handler provides for ("Model updated")
ModelValues == {"nova-3", "nova-3-mini", "bogus-id"}

\* values handed to the tone <Select>'s onChange
ToneValues == {"Balanced", "Playful"}

WhiteSpace == {" ", "\t", "\n", "\r"}

\* raw texts typed into the field: empty, blank, padded, and with a blank inside
RawTexts == {<<>>, <<" ">>, <<" ", "a", " ">>, <<"a", " ", "a">>}

----------------------------------------------------------------------------
(* Pure helpers *)

RECURSIVE TrimStart(_)
TrimStart(s) ==
    IF s # <<>> /\ Head(s) \in WhiteSpace THEN TrimStart(Tail(s)) ELSE s

RECURSIVE TrimEnd(_)
TrimEnd(s) ==
    IF s # <<>> /\ s[Len(s)] \in WhiteSpace
    THEN TrimEnd(SubSeq(s, 1, Len(s) - 1))
    ELSE s

Trim_None(s) == s

\* String.prototype.trim
Trim(s) == TrimEnd(TrimStart(s))

Min(a, b) == IF a <= b THEN a ELSE b

Delay_NoCap(message) == 500 + Len(message) * 4

\* Math.min(1400, 500 + message.length * 4)
Delay(message) == Min(1400, 500 + Len(message) * 4)

\* models.find((model) => model.id === id)?.label ?? "Model"
ModelLabel(id) ==
    IF \E i \in 1..Len(models) : models[i].id = id
    THEN models[CHOOSE i \in 1..Len(models) : models[i].id = id].label
    ELSE "Model"

selectedModelLabel_First == models[1].label

selectedModelLabel == ModelLabel(selectedModel)

composeResponse_SharedClosing(prompt, m, t) ==
    <<toneLead(t), " ">> \o prompt \o
    <<"\n\n", ModelLabel(m), " thinks the key points are:\n",
      "* Understand intent clearly.\n",
      "* Respond with the tone selected (", t, ").\n",
      "* Provide a follow-up option for deeper exploration.\n\n",
      "Happy to refine further.">>

\* composeResponse as run in a render whose selectedModel is m and tone is t
composeResponse(prompt, m, t) ==
    LET modelLabel == ModelLabel(m)
        closing == IF t = "Playful"
                   THEN "Let me know if you want another quirky angle!"
                   ELSE "Happy to refine further."
    IN  <<toneLead(t), " ">> \o prompt \o
        <<"\n\n", modelLabel, " thinks the key points are:\n",
          "* Understand intent clearly.\n",
          "* Respond with the tone selected (", t, ").\n",
          "* Provide a follow-up option for deeper exploration.\n\n",
          closing>>

addMessage_Stale(prev, role, text) == <<[role |-> role, text |-> text]>>

\* addMessage: setMessages((prev) => [...prev, entry])
addMessage(prev, role, text) == Append(prev, [role |-> role, text |-> text])

Ready == [text |-> <<"Ready">>, accent |-> FALSE]

Thinking_NoAccent(label) == [text |-> <<"Thinking with ", label>>, accent |-> FALSE]

Thinking(label) == [text |-> <<"Thinking with ", label>>, accent |-> TRUE]

----------------------------------------------------------------------------
(* Timers of the window *)

PendingTimers == {h \in 1..Len(timers) : timers[h].state = "pending"}

\* window.setTimeout(respond, delay): respond closes over message and over the
\* composeResponse of the render that created it, hence over that render's
\* selectedModel and tone. queued: the delay has elapsed and the task that
\* runs the callback waits in the event loop
NewTimer(message, delay) ==
    [state |-> "pending", message |-> message, selectedModel |-> selectedModel,
     tone |-> tone, delay |-> delay, queued |-> FALSE]

clearTimeout_NoOp(ts, h) == ts

clearTimeout_TooLate(ts, h) ==
    IF h \in 1..Len(ts) /\ ts[h].state = "pending" /\ ~ts[h].queued
    THEN [ts EXCEPT ![h] = [state |-> "cancelled", queued |-> FALSE]]
    ELSE ts

\* window.clearTimeout(h): a pending timer is removed from the list of active
\* timers, so its callback does not run, whether or not its task is already
\* queued (the task stays in the queue); any other handle is left as it is
clearTimeout(ts, h) ==
    IF h \in 1..Len(ts) /\ ts[h].state = "pending"
    THEN [ts EXCEPT ![h] = [state |-> "cancelled", queued |-> ts[h].queued]]
    ELSE ts

----------------------------------------------------------------------------
(* Initial state: the useState / useRef defaults *)

Init_NoTypingPause ==
    /\ messages = <<>>
    /\ input = <<>>
    /\ selectedModel = models[1].id
    /\ tone = "Balanced"
    /\ showTimestamps = TRUE
    /\ typingPause = FALSE
    /\ status = Ready
    /\ isSending = FALSE
    /\ typingTimeout = 0
    /\ timers = <<>>
    /\ now = StartTime

Init ==
    /\ messages = <<>>
    /\ input = <<>>
    /\ selectedModel = models[1].id
    /\ tone = "Balanced"
    /\ showTimestamps = TRUE
    /\ typingPause = TRUE
    /\ status = Ready
    /\ isSending = FALSE
    /\ typingTimeout = 0
    /\ timers = <<>>
    /\ now = StartTime

----------------------------------------------------------------------------
(* Handlers *)

FormDisabled_Never == FALSE

\* disabled={isSending}, on the <TextField> and on the submit <Button>
FormDisabled == isSending

\* TextField onChange: setInput(event.target.value)
SetInput(raw) ==
    /\ ~FormDisabled
    /\ input' = raw
    /\ UNCHANGED <<messages, settings, status, isSending, typingTimeout, timers, now>>

\* handleSubmit, the typingPause branch: the reply is left to a timer
SubmitDelayed(message) ==
    /\ messages' = addMessage(messages, "user", message)
    /\ status' = Thinking(selectedModelLabel)
    /\ isSending' = TRUE
    /\ timers' = Append(timers, NewTimer(message, Delay(message)))
    /\ typingTimeout' = Len(timers) + 1

SubmitImmediate_Scheduled(message) == SubmitDelayed(message)

\* handleSubmit, the else branch: respond() runs inside the handler
SubmitImmediate(message) ==
    /\ messages' = addMessage(addMessage(messages, "user", message), "ai",
                              composeResponse(message, selectedModel, tone))
    /\ status' = Ready
    /\ isSending' = FALSE
    /\ UNCHANGED <<timers, typingTimeout>>

handleSubmit ==
    LET message == Trim(input)
    IN  IF message = <<>>
        THEN UNCHANGED vars
        ELSE /\ Len(messages) + 2 <= MaxMsgs
             /\ typingPause => Len(timers) < MaxTimers
             /\ input' = <<>>
             /\ IF typingPause
                THEN SubmitDelayed(message)
                ELSE SubmitImmediate(message)
             /\ UNCHANGED <<settings, now>>

\* the form's submit event: the browser dispatches none while the submit
\* button is disabled
Submit == IF FormDisabled THEN UNCHANGED vars ELSE handleSubmit

respondReply_CurrentSettings(h) ==
    composeResponse(timers[h].message, selectedModel, tone)

\* const reply = composeResponse(message), in the respond of timer h
respondReply(h) ==
    composeResponse(timers[h].message, timers[h].selectedModel, timers[h].tone)

Fire_StatusKept(h) ==
    /\ h \in PendingTimers
    /\ messages' = addMessage(messages, "ai", respondReply(h))
    /\ isSending' = FALSE
    /\ timers' = [timers EXCEPT ![h] = [state |-> "fired"]]
    /\ UNCHANGED <<input, settings, status, typingTimeout, now>>

\* the timer with handle h expires and the window runs its respond callback
Fire(h) ==
    /\ h \in PendingTimers
    /\ messages' = addMessage(messages, "ai", respondReply(h))
    /\ status' = Ready
    /\ isSending' = FALSE
    /\ timers' = [timers EXCEPT ![h] = [state |-> "fired"]]
    /\ UNCHANGED <<input, settings, typingTimeout, now>>

\* the delay of timer h elapses: the task that runs its callback is queued
Expire(h) ==
    /\ h \in PendingTimers
    /\ ~timers[h].queued
    /\ timers' = [timers EXCEPT ![h].queued = TRUE]
    /\ UNCHANGED <<messages, input, settings, status, isSending,
                   typingTimeout, now>>

Run_StillSending(h) ==
    /\ h \in 1..Len(timers)
    /\ timers[h].state \in {"pending", "cancelled"}
    /\ timers[h].queued
    /\ IF timers[h].state = "pending"
       THEN /\ messages' = addMessage(messages, "ai", respondReply(h))
            /\ status' = Ready
            /\ timers' = [timers EXCEPT ![h] = [state |-> "fired"]]
            /\ UNCHANGED isSending
       ELSE /\ timers' = [timers EXCEPT ![h].queued = FALSE]
            /\ UNCHANGED <<messages, status, isSending>>
    /\ UNCHANGED <<input, settings, typingTimeout, now>>

\* the queued task of timer h is run: it calls respond if the timer is still
\* in the list of active timers and does nothing if it was cleared
Run(h) ==
    /\ h \in 1..Len(timers)
    /\ timers[h].state \in {"pending", "cancelled"}
    /\ timers[h].queued
    /\ IF timers[h].state = "pending"
       THEN /\ messages' = addMessage(messages, "ai", respondReply(h))
            /\ status' = Ready
            /\ isSending' = FALSE
            /\ timers' = [timers EXCEPT ![h] = [state |-> "fired"]]
       ELSE /\ timers' = [timers EXCEPT ![h].queued = FALSE]
            /\ UNCHANGED <<messages, status, isSending>>
    /\ UNCHANGED <<input, settings, typingTimeout, now>>

handleClear_DropsLast ==
    /\ timers' = IF typingTimeout # 0
                 THEN clearTimeout(timers, typingTimeout)
                 ELSE timers
    /\ messages' = SubSeq(messages, 1, Len(messages) - 1)
    /\ status' = Ready
    /\ isSending' = FALSE
    /\ UNCHANGED <<input, settings, typingTimeout, now>>

handleClear_ResetsSettings ==
    /\ timers' = IF typingTimeout # 0
                 THEN clearTimeout(timers, typingTimeout)
                 ELSE timers
    /\ messages' = <<>>
    /\ status' = Ready
    /\ isSending' = FALSE
    /\ selectedModel' = models[1].id
    /\ tone' = "Balanced"
    /\ UNCHANGED <<input, showTimestamps, typingPause, typingTimeout, now>>

handleClear_StillSending ==
    /\ timers' = IF typingTimeout # 0
                 THEN clearTimeout(timers, typingTimeout)
                 ELSE timers
    /\ messages' = <<>>
    /\ status' = Ready
    /\ UNCHANGED <<input, settings, typingTimeout, isSending, now>>

handleClear ==
    /\ timers' = IF typingTimeout # 0
                 THEN clearTimeout(timers, typingTimeout)
                 ELSE timers
    /\ messages' = <<>>
    /\ status' = Ready
    /\ isSending' = FALSE
    /\ UNCHANGED <<input, settings, typingTimeout, now>>

SetModel_NoStatus(value) ==
    /\ selectedModel' = value
    /\ UNCHANGED <<messages, input, tone, showTimestamps, typingPause, status,
                   isSending, typingTimeout, timers, now>>

\* model <Select> onChange
SetModel(value) ==
    /\ selectedModel' = value
    /\ status' =
         IF \E i \in 1..Len(models) : models[i].id = value
         THEN LET modelText == models[CHOOSE i \in 1..Len(models) :
                                          models[i].id = value]
              IN  [text |-> <<"Model set to ", modelText.label, " - ",
                              modelText.description>>,
                   accent |-> TRUE]
         ELSE [text |-> <<"Model updated">>, accent |-> TRUE]
    /\ UNCHANGED <<messages, input, tone, showTimestamps, typingPause,
                   isSending, typingTimeout, timers, now>>

\* tone <Select> onChange
SetTone(value) ==
    /\ tone' = value
    /\ UNCHANGED <<messages, input, selectedModel, showTimestamps, typingPause,
                   status, isSending, typingTimeout, timers, now>>

\* "Show timestamps" <Switch> onChange
SetShowTimestamps(checked) ==
    /\ showTimestamps' = checked
    /\ UNCHANGED <<messages, input, selectedModel, tone, typingPause,
                   status, isSending, typingTimeout, timers, now>>

SetTypingPause_Cancels(checked) ==
    /\ typingPause' = checked
    /\ timers' = IF checked THEN timers ELSE clearTimeout(timers, typingTimeout)
    /\ UNCHANGED <<messages, input, selectedModel, tone, showTimestamps,
                   status, isSending, typingTimeout, now>>

\* "Typing indicator" <Switch> onChange
SetTypingPause(checked) ==
    /\ typingPause' = checked
    /\ UNCHANGED <<messages, input, selectedModel, tone, showTimestamps,
                   status, isSending, typingTimeout, timers, now>>

Next ==
    \/ \E raw \in RawTexts : SetInput(raw)
    \/ Submit
    \/ \E h \in 1..MaxTimers : Fire(h)
    \/ handleClear
    \/ \E value \in ModelValues : SetModel(value)
    \/ \E value \in ToneValues : SetTone(value)
    \/ \E checked \in BOOLEAN : SetShowTimestamps(checked)
    \/ \E checked \in BOOLEAN : SetTypingPause(checked)

Spec == Init /\ [][Next]_vars

----------------------------------------------------------------------------
(* The tone <Select> given any string *)

\* event.target.value of the tone <Select>, a string that onChange casts to
\* Tone unchecked: the four tones, and one string that is none of them
ToneStrings == Tones \cup {"Formal"}

NextAnyTone ==
    \/ \E raw \in RawTexts : SetInput(raw)
    \/ Submit
    \/ \E h \in 1..MaxTimers : Fire(h)
    \/ handleClear
    \/ \E value \in ToneStrings : SetTone(value)

ToneSpec == Init /\ [][NextAnyTone]_vars

----------------------------------------------------------------------------
(* Expiry of the timer and the run of its callback as two steps *)

NextRace ==
    \/ \E raw \in RawTexts : SetInput(raw)
    \/ Submit
    \/ \E h \in 1..MaxTimers : Expire(h)
    \/ \E h \in 1..MaxTimers : Run(h)
    \/ handleClear

RaceSpec == Init /\ [][NextRace]_vars

\* The window's timers are fair: the delay of a pending timer (at most 1400
\* ms) elapses, and the event loop runs every queued task.
FairSpec ==
    /\ Init
    /\ [][NextRace]_vars
    /\ \A h \in 1..MaxTimers : WF_vars(Expire(h)) /\ WF_vars(Run(h))

----------------------------------------------------------------------------
(* composeResponse on every catalog model and tone *)

\* the session before a submit, with any catalog model, any tone, either
\* setting of the typing pause and any of the raw texts in the field
ComposeInit ==
    /\ messages = <<>>
    /\ input \in RawTexts
    /\ selectedModel \in ModelIds
    /\ tone \in Tones
    /\ showTimestamps = TRUE
    /\ typingPause \in BOOLEAN
    /\ status = Ready
    /\ isSending = FALSE
    /\ typingTimeout = 0
    /\ timers = <<>>
    /\ now = StartTime

NextCompose ==
    \/ Submit
    \/ \E h \in 1..MaxTimers : Fire(h)

ComposeSpec == ComposeInit /\ [][NextCompose]_vars

----------------------------------------------------------------------------
(* The delay on prompts of every length *)

\* longest prompt typed into the field
MaxPromptLen == 300

\* a text of n characters
TextOfLen(n) == [i \in 1..n |-> "a"]

\* the session before a submit, with a prompt of any length in the field
DelayInit ==
    /\ messages = <<>>
    /\ input \in {TextOfLen(n) : n \in 0..MaxPromptLen}
    /\ selectedModel = models[1].id
    /\ tone = "Balanced"
    /\ showTimestamps = TRUE
    /\ typingPause = TRUE
    /\ status = Ready
    /\ isSending = FALSE
    /\ typingTimeout = 0
    /\ timers = <<>>
    /\ now = StartTime

NextDelay ==
    \/ Submit
    \/ \E h \in 1..MaxTimers : Fire(h)

DelaySpec == DelayInit /\ [][NextDelay]_vars

----------------------------------------------------------------------------
(* The variant without a delay (src/unnamed/part_001): handleSend appends the
   user message and a canned reply in one step, with ids made from the clock.
   It uses the variables messages, input, selectedModel (its model) and now;
   its messages carry id, role and text. *)

introCards ==
    <<"What are some quick weeknight dinners I can make?",
      "How do I prepare for a job interview in tech?">>

defaultMessages ==
    <<[id |-> <<"1">>, role |-> "user", text |-> <<"test">>],
      [id |-> <<"2">>, role |-> "assistant",
       text |-> <<"I'm ready to help! What would you like to know more about?">>]>>

SendModelValues == {"gpt-4o-mini", "gpt-4o"}

SendInit ==
    /\ messages = <<>>
    /\ input = <<>>
    /\ selectedModel = "gpt-4o-mini"
    /\ tone = "Balanced"
    /\ showTimestamps = TRUE
    /\ typingPause = TRUE
    /\ status = Ready
    /\ isSending = FALSE
    /\ typingTimeout = 0
    /\ timers = <<>>
    /\ now = StartTime

\* the clock moves on by a millisecond
Tick ==
    /\ now < StartTime + MaxTicks
    /\ now' = now + 1
    /\ UNCHANGED <<messages, input, settings, status, isSending,
                   typingTimeout, timers>>

\* TextField onChange: setInput(event.target.value)
setInput(raw) ==
    /\ input' = raw
    /\ UNCHANGED <<messages, settings, status, isSending, typingTimeout,
                   timers, now>>

\* click on an intro card, shown while there is no conversation
handleStart(prompt) ==
    /\ Len(messages) = 0
    /\ input' = <<prompt>>
    /\ UNCHANGED <<messages, settings, status, isSending, typingTimeout,
                   timers, now>>

\* model <Select> onChange
setModel(value) ==
    /\ selectedModel' = value
    /\ UNCHANGED <<messages, input, tone, showTimestamps, typingPause, status,
                   isSending, typingTimeout, timers, now>>

\* Date.now().toString() and `${Date.now()}-a`
UserId(t) == <<ToString(t)>>

AssistantId(t) == <<ToString(t), "-a">>

handleSend_AlwaysGotIt ==
    IF Trim(input) = <<>>
    THEN UNCHANGED vars
    ELSE /\ Len(messages) + 2 <= MaxMsgs
         /\ messages' = messages \o
               <<[id |-> UserId(now), role |-> "user", text |-> Trim(input)],
                 [id |-> AssistantId(now), role |-> "assistant",
                  text |-> <<"Got it! I'll take a look and get back to you.">>]>>
         /\ input' = <<>>
         /\ UNCHANGED <<settings, status, isSending, typingTimeout, timers, now>>

handleSend ==
    IF Trim(input) = <<>>
    THEN UNCHANGED vars
    ELSE /\ Len(messages) + 2 <= MaxMsgs
         /\ LET userMessage == [id |-> UserId(now), role |-> "user",
                                text |-> Trim(input)]
                assistantMessage ==
                    IF Len(messages) = 0
                    THEN defaultMessages[2]
                    ELSE [id |-> AssistantId(now), role |-> "assistant",
                          text |-> <<"Got it! I'll take a look and get back to you.">>]
            IN  messages' = messages \o <<userMessage, assistantMessage>>
         /\ input' = <<>>
         /\ UNCHANGED <<settings, status, isSending, typingTimeout, timers, now>>

NextSend ==
    \/ Tick
    \/ \E raw \in RawTexts : setInput(raw)
    \/ \E i \in 1..Len(introCards) : handleStart(introCards[i])
    \/ \E value \in SendModelValues : setModel(value)
    \/ handleSend

SendSpec == SendInit /\ [][NextSend]_vars

----------------------------------------------------------------------------
(* Vocabulary of the properties *)

\* handles of the timers in position st
TimersIn(ts, st) == {h \in 1..Len(ts) : ts[h].state = st}

\* this step appends a user message to the log
UserAppended ==
    /\ Len(messages') > Len(messages)
    /\ messages'[Len(messages) + 1].role = "user"

\* this step schedules a timer
TimerScheduled == Len(timers') > Len(timers)

\* this step runs the respond callback of timer h
Fired(h) ==
    /\ h \in TimersIn(timers, "pending")
    /\ h \in TimersIn(timers', "fired")

Blank(s) == \A i \in 1..Len(s) : s[i] \in WhiteSpace

----------------------------------------------------------------------------
(* C1..C10 *)

\* C1: when clear runs while a delayed reply is pending, the pending timer is
\* cancelled in that very step, a cancelled timer stays cancelled in every
\* later step (its callback never runs), and an assistant message is appended
\* on its own only by a timer that goes from pending to fired: so the reply
\* of the cleared request is never appended.
C1_ClearedReplyNeverAppended ==
    [][ /\ (isSending /\ TimersIn(timers, "pending") # {} /\ handleClear)
            => TimersIn(timers', "pending") = {}
        /\ \A h \in TimersIn(timers, "cancelled") :
               h \in TimersIn(timers', "cancelled")
        /\ (Len(messages') = Len(messages) + 1
              /\ messages'[Len(messages')].role = "ai")
            => \E h \in 1..Len(timers) : Fired(h)
      ]_vars

\* a clear has cancelled a pending reply, and the log is still empty
C1_Witness ==
    /\ TimersIn(timers, "cancelled") # {}
    /\ messages = <<>>
    /\ ~isSending

\* C2: while isSending is true no step appends a user message, schedules a
\* timer or edits the text field, and a submit event changes nothing at all;
\* the log holds at most one message more than its settled (even) length.
C2_SubmitIgnoredWhileSending ==
    [][ isSending =>
          /\ ~UserAppended
          /\ ~TimerScheduled
          /\ input' = input
          /\ Submit => UNCHANGED vars
          /\ Len(messages') <= Len(messages) + 1
      ]_vars

\* a request is pending: its user message is in the log and its reply is not
C2_Witness ==
    /\ isSending
    /\ TimersIn(timers, "pending") # {}
    /\ messages # <<>>
    /\ messages[Len(messages)].role = "user"

\* C3: the timer scheduled by a submit holds the model and tone selected at
\* that submit, holds them unchanged while it is pending whatever the
\* settings become, and the reply it appends when it fires is composed from
\* the held model and tone.
C3_ReplyUsesSubmitTimeSettings ==
    [][ /\ TimerScheduled =>
              /\ timers'[Len(timers')].selectedModel = selectedModel
              /\ timers'[Len(timers')].tone = tone
        /\ \A h \in TimersIn(timers, "pending") \cap TimersIn(timers', "pending") :
              timers'[h] = timers[h]
        /\ \A h \in 1..Len(timers) :
              Fired(h) =>
                messages'[Len(messages')] =
                  [role |-> "ai",
                   text |-> composeResponse(timers[h].message,
                                            timers[h].selectedModel,
                                            timers[h].tone)]
      ]_vars

\* a delayed reply was delivered (status Ready since) that names another
\* model and another tone than the ones now selected: both were changed
\* between the submit and the firing
C3_Witness ==
    /\ status = Ready
    /\ TimersIn(timers, "fired") # {}
    /\ messages # <<>>
    /\ \E m \in ModelValues, t \in ToneValues :
          /\ m # selectedModel
          /\ t # tone
          /\ messages[Len(messages)] =
               [role |-> "ai",
                text |-> composeResponse(messages[Len(messages) - 1].text, m, t)]

\* C4: in every reachable log the roles alternate user, ai, user, ...
\* starting with user, and every ai message is a reply composed for the
\* prompt of the user message right before it.
C4_RepliesFollowTheirRequests ==
    \A i \in 1..Len(messages) :
        IF i % 2 = 1
        THEN messages[i].role = "user"
        ELSE /\ messages[i].role = "ai"
             /\ \E m \in ModelValues, t \in ToneValues :
                   messages[i].text = composeResponse(messages[i - 1].text, m, t)

\* the user message of a second request follows the reply of the first
C4_Witness ==
    /\ Len(messages) >= 3
    /\ messages[2].role = "ai"
    /\ messages[3].role = "user"

C6_DelayedSubmitAddsOneThenTwo ==
    [][ /\ TimerScheduled =>
              /\ ~Blank(input)
              /\ Len(messages') = Len(messages) + 1
              /\ SubSeq(messages', 1, Len(messages)) = messages
              /\ messages'[Len(messages')].role = "user"
        /\ (isSending /\ isSending' /\ ~TimerScheduled) => messages' = messages
        /\ \A h \in 1..Len(timers) :
              Fired(h) =>
                /\ Len(messages') = Len(messages) + 1
                /\ SubSeq(messages', 1, Len(messages)) = messages
                /\ messages'[Len(messages')].role = "ai"
                /\ messages[Len(messages)].role = "user"
      ]_vars

\* a delayed request has settled with exactly its two messages in the log
C6_Witness ==
    /\ Len(messages) = 2
    /\ Len(timers) = 1
    /\ timers[1].state = "fired"

\* C7: while the text field holds only whitespace (or nothing), no step
\* appends a message, schedules a timer, sets isSending or shows a Thinking
\* status, and a submit event changes nothing at all.
C7_BlankSubmitIsNoOp ==
    [][ (Blank(input) /\ ~isSending) =>
          /\ Len(messages') <= Len(messages)
          /\ ~TimerScheduled
          /\ ~isSending'
          /\ status'.text[1] # "Thinking with "
          /\ Submit => UNCHANGED vars
      ]_vars

\* the field holds a non-empty text of whitespace only while submit is enabled
C7_Witness ==
    /\ input # <<>>
    /\ Blank(input)
    /\ ~isSending

\* C8: a step that appends a user message while typingPause is false appends
\* the reply in the same step, composed from the current model and tone,
\* ends with isSending false and status Ready, and schedules no timer.
C8_NoDelayRepliesInsideSubmit ==
    [][ (UserAppended /\ ~typingPause) =>
          /\ Len(messages') = Len(messages) + 2
          /\ messages'[Len(messages')] =
               [role |-> "ai",
                text |-> composeResponse(messages'[Len(messages') - 1].text,
                                         selectedModel, tone)]
          /\ ~isSending'
          /\ status' = Ready
          /\ timers' = timers
          /\ typingTimeout' = typingTimeout
      ]_vars

\* a request was answered although no timer was ever scheduled
C8_Witness ==
    /\ Len(messages) = 2
    /\ messages[2].role = "ai"
    /\ timers = <<>>
    /\ ~isSending

\* C9: every clear step, from whatever state, ends with an empty log, status
\* Ready without accent, isSending false and no timer pending.
C9_ClearReturnsToReady ==
    [][ handleClear =>
          /\ messages' = <<>>
          /\ status'.text = <<"Ready">>
          /\ ~status'.accent
          /\ ~isSending'
          /\ TimersIn(timers', "pending") = {}
      ]_vars

\* cleared after a model change and a cancelled reply: Ready again, with the
\* other model still selected
C9_Witness ==
    /\ messages = <<>>
    /\ status = Ready
    /\ ~isSending
    /\ selectedModel # models[1].id
    /\ TimersIn(timers, "cancelled") # {}
    /\ TimersIn(timers, "pending") = {}

\* C10: the selected model always references a catalog entry (a setModel
\* with an id outside the catalog is rejected and changes nothing).
C10_SelectedModelInCatalog ==
    selectedModel \in ModelIds

----------------------------------------------------------------------------
(* C11..C20 *)

\* C11: the tone is always one of the four enumerated values (a setTone with
\* any other value is rejected and changes nothing).
C11_ToneIsEnumerated ==
    tone \in Tones

\* the lead lines of the four tones
C13_Lead(t) ==
    CASE t = "Balanced" -> "Here you go with a balanced take:"
      [] t = "Concise"  -> "Quick answer:"
      [] t = "Detailed" -> "Let me unpack that in detail:"
      [] t = "Playful"  -> "Fun spin coming up:"

\* the reply to prompt p for the catalog model with id m and tone t
C13_Reply(p, m, t) ==
    LET entry == models[CHOOSE i \in 1..Len(models) : models[i].id = m]
    IN  <<C13_Lead(t), " ">> \o p \o
        <<"\n\n", entry.label, " thinks the key points are:\n",
          "* Understand intent clearly.\n",
          "* Respond with the tone selected (", t, ").\n",
          "* Provide a follow-up option for deeper exploration.\n\n",
          IF t = "Playful"
          THEN "Let me know if you want another quirky angle!"
          ELSE "Happy to refine further.">>

\* C13: for every prompt, tone and catalog model, the reply in the log is
\* the tone's lead line, a space, the prompt of the user message before it,
\* the three-bullet body naming the model's label and the tone, and the
\* closing: the playful sentence exactly for Playful, the shared one otherwise.
C13_ReplyFormat ==
    \A i \in 1..Len(messages) :
        messages[i].role = "ai" =>
            messages[i].text = C13_Reply(messages[i - 1].text, selectedModel, tone)

\* a Playful reply of the third catalog model, ending with the playful closing
C13_Witness ==
    /\ Len(messages) = 2
    /\ tone = "Playful"
    /\ selectedModel = "analysis-pro"
    /\ messages[2].role = "ai"
    /\ messages[2].text[Len(messages[2].text)] =
         "Let me know if you want another quirky angle!"

\* C14: the delay of every scheduled reply is min(1400, 500 + 4 * length of
\* the trimmed prompt): 900 for length 100, 1400 for length 300, never more
\* than 1400, not less for a prompt one character longer; 500 for length 0.
C14_DelayFormula ==
    /\ Delay(<<>>) = 500
    /\ \A h \in 1..Len(timers) :
          timers[h].state = "pending" =>
            LET n == Len(timers[h].message)
                d == timers[h].delay
            IN  /\ d = IF 500 + 4 * n <= 1400 THEN 500 + 4 * n ELSE 1400
                /\ d <= 1400
                /\ n = 100 => d = 900
                /\ n = 300 => d = 1400
                /\ d <= Delay(Append(timers[h].message, "a"))

\* a reply to a prompt of 300 characters is pending with the capped delay
C14_Witness ==
    /\ Len(timers) = 1
    /\ timers[1].state = "pending"
    /\ Len(timers[1].message) = 300
    /\ timers[1].delay = 1400

\* C15: the log is append-only: every step either keeps the old log as a
\* prefix of the new one (entries unchanged and in the same order, new ones
\* only at the end) or is the clear that leaves the empty log.
C15_LogAppendOnly ==
    [][\/ /\ Len(messages') >= Len(messages)
          /\ SubSeq(messages', 1, Len(messages)) = messages
       \/ /\ handleClear
          /\ messages' = <<>>]_vars

\* two requests and their replies are in the log, in the order of creation
C15_Witness ==
    /\ Len(messages) = 4
    /\ messages[1].role = "user"
    /\ messages[2].role = "ai"
    /\ messages[3].role = "user"
    /\ messages[4].role = "ai"

\* C16: message ids are unique: no two messages of the log share an id, also
\* when they are created at the same reading of the clock.
C16_IdsUnique ==
    \A i, j \in 1..Len(messages) :
        i # j => messages[i].id # messages[j].id

\* C17: a model change to a catalog id sets the selected model to that id
\* and the status to "Model set to <label> - <description>" with the accent
\* on, whether or not a reply is pending.
C17_ModelChangeReported ==
    [][\A i \in 1..Len(models) :
          SetModel(models[i].id) =>
             /\ selectedModel' = models[i].id
             /\ status' = [text   |-> <<"Model set to ", models[i].label,
                                        " - ", models[i].description>>,
                           accent |-> TRUE]]_vars

\* the model was changed while a reply is pending
C17_Witness ==
    /\ isSending
    /\ PendingTimers # {}
    /\ selectedModel = "nova-3-mini"
    /\ status.text[1] = "Model set to "
    /\ status.accent

\* C18: a step that changes a setting (model, tone, timestamps, typing
\* pause) leaves the log, isSending, the timers and the timer handle as they
\* were: a pending reply is not cancelled, delivered or rescheduled.
C18_SettingsChangeFrame ==
    [][settings' # settings =>
          /\ messages' = messages
          /\ isSending' = isSending
          /\ timers' = timers
          /\ typingTimeout' = typingTimeout]_vars

\* a reply is still pending after the tone was changed and the typing pause
\* was switched off
C18_Witness ==
    /\ isSending
    /\ ~typingPause
    /\ \E h \in PendingTimers : timers[h].tone # tone

\* C19: a clear processed after the timer's delay has elapsed and before its
\* callback has run cancels the timer; a cancelled timer stays cancelled (its
\* callback never runs), and an assistant message is appended only by the
\* callback of a timer that was still active.
C19_CancelWinsRace ==
    [][/\ \A h \in 1..Len(timers) :
             /\ (timers[h].state = "pending" /\ timers[h].queued /\ handleClear)
                   => /\ timers'[h].state = "cancelled"
                      /\ messages' = <<>>
             /\ timers[h].state = "cancelled" => timers'[h].state = "cancelled"
       /\ (Len(messages') > Len(messages) /\ messages'[Len(messages')].role = "ai")
             => \E h \in 1..Len(timers) :
                   /\ timers[h].state = "pending"
                   /\ timers'[h].state = "fired"]_vars

\* the clear came between the expiry and the callback: the timer is cancelled
\* while its task is in the queue, and the log is empty
C19_Witness ==
    /\ messages = <<>>
    /\ ~isSending
    /\ \E h \in 1..Len(timers) :
          timers[h].state = "cancelled" /\ timers[h].queued

\* the state is one that handleClear maps to itself
C20_ClearChangesNothing ==
    /\ messages = <<>>
    /\ status = Ready
    /\ isSending = FALSE
    /\ (typingTimeout # 0 => clearTimeout(timers, typingTimeout) = timers)

\* C20: clear leaves the empty log, so it leaves an already empty log as it
\* is; and the state after a clear is one that a second clear does not
\* change: clear followed by clear equals a single clear.
C20_ClearEmptiesAndIsIdempotent ==
    [][handleClear =>
          /\ messages' = <<>>
          /\ (messages = <<>> => messages' = messages)
          /\ C20_ClearChangesNothing']_vars

\* the log was cleared twice while a reply was pending
C20_Witness ==
    /\ messages = <<>>
    /\ status = Ready
    /\ Len(timers) = 2
    /\ timers[1].state = "cancelled"
    /\ timers[2].state = "cancelled"

----------------------------------------------------------------------------
(* C21..C29 *)

\* the label the status names for the selected model
C21_Label ==
    IF \E i \in 1..Len(models) : models[i].id = selectedModel
    THEN models[CHOOSE i \in 1..Len(models) : models[i].id = selectedModel].label
    ELSE "Model"

\* this step is an accepted submit: the user message with the trimmed input
\* is appended; on the delayed path the status is "Thinking with <label>",
\* accented, and isSending is true
C21_AcceptedSubmit ==
    UserAppended =>
        /\ Trim(input) # <<>>
        /\ messages'[Len(messages) + 1] = [role |-> "user", text |-> Trim(input)]
        /\ SubSeq(messages', 1, Len(messages)) = messages
        /\ typingPause =>
              /\ Len(messages') = Len(messages) + 1
              /\ status' = [text |-> <<"Thinking with ", C21_Label>>,
                            accent |-> TRUE]
              /\ isSending'

\* C21 as stated: an accepted submit appends the user message and sets the
\* status "Thinking with <label>", accented, with isSending true, and that
\* state holds until the timer fires or clear runs.
C21_ThinkingHeldUntilFireOrClear ==
    [][/\ C21_AcceptedSubmit
       /\ (isSending /\ isSending') => status' = status]_vars

\* C21 amended: as above, but while the reply is pending the status stays
\* accented and its text is only replaced by a model change.
C21_SubmitSetsThinking ==
    [][/\ C21_AcceptedSubmit
       /\ (isSending /\ isSending') =>
             /\ status'.accent
             /\ \/ status' = status
                \/ \E value \in ModelValues : SetModel(value)]_vars

\* a reply is pending and the status still names the second model, which was
\* selected when the prompt was submitted
C21_Witness ==
    /\ isSending
    /\ selectedModel = "nova-3-mini"
    /\ status = [text |-> <<"Thinking with ", "Nova 3 Mini">>, accent |-> TRUE]
    /\ messages[Len(messages)].role = "user"

\* C22: when the pending reply of timer h fires, the step appends exactly one
\* assistant message, composed from the trimmed prompt of the request (the
\* user message last in the log) and the model and tone held since the
\* submit, and leaves status "Ready" without accent and isSending false,
\* whatever the status was; a fired timer stays fired, and an assistant
\* message is appended after a pending period only by such a firing.
C22_FireAppendsReplyAndResets ==
    [][/\ \A h \in 1..Len(timers) :
             /\ Fired(h) =>
                   /\ messages[Len(messages)] =
                        [role |-> "user", text |-> timers[h].message]
                   /\ timers[h].message = Trim(timers[h].message)
                   /\ messages' = Append(messages,
                        [role |-> "ai",
                         text |-> composeResponse(timers[h].message,
                                                  timers[h].selectedModel,
                                                  timers[h].tone)])
                   /\ status' = [text |-> <<"Ready">>, accent |-> FALSE]
                   /\ isSending' = FALSE
             /\ timers[h].state = "fired" => timers'[h].state = "fired"
       /\ (isSending /\ Len(messages') > Len(messages)) =>
             \E h \in 1..Len(timers) : Fired(h)]_vars

\* the reply was delivered and the status is Ready although the model was
\* changed while the reply was pending: the reply names the first model, the
\* second is selected
C22_Witness ==
    /\ status = Ready
    /\ Len(messages) = 2
    /\ timers = <<[state |-> "fired"]>>
    /\ selectedModel = "nova-3-mini"
    /\ messages[2].text[Len(messages[1].text) + 4] = "Nova 3"

\* C23: in every reachable state isSending is true exactly when a reply
\* timer is pending; it becomes true only at an accepted delayed submit and
\* becomes false only when the reply is appended or clear cancels it.
C23_SendingIffTimerPending ==
    /\ [](isSending <=> TimersIn(timers, "pending") # {})
    /\ [][/\ (~isSending /\ isSending') => (UserAppended /\ TimerScheduled)
          /\ (isSending /\ ~isSending') =>
                \/ \E h \in 1..Len(timers) : Fired(h)
                \/ (handleClear /\ TimersIn(timers', "pending") = {})]_vars

\* a second reply is pending after the first request was cancelled by clear
C23_Witness ==
    /\ isSending
    /\ Len(timers) = 2
    /\ timers[1].state = "cancelled"
    /\ timers[2].state = "pending"

\* C24: whenever isSending is true the status is accented, and its text is
\* not "Ready".
C24_SendingIsAccented ==
    isSending => (status.accent /\ status.text # <<"Ready">>)

\* a reply is pending under the accented "Thinking with Nova 3" status
C24_Witness ==
    /\ isSending
    /\ status.accent
    /\ status.text = <<"Thinking with ", "Nova 3">>
    /\ tone = "Playful"

\* C25: with fair timers every Sending state leads to isSending false, and
\* every pending timer leads to that timer fired (its reply appended) or
\* cancelled by clear.
C25_SendingEnds ==
    /\ isSending ~> ~isSending
    /\ \A h \in 1..MaxTimers :
          (h \in TimersIn(timers, "pending")) ~>
             (h \in TimersIn(timers, "fired") \cup TimersIn(timers, "cancelled"))

\* two requests were each answered by their timer
C25_Witness ==
    /\ ~isSending
    /\ Len(timers) = 2
    /\ timers[1].state = "fired"
    /\ timers[2].state = "fired"
    /\ Len(messages) = 4

\* C26: the first state of every behaviour has the empty log, the first
\* catalog model ("nova-3"), tone Balanced, timestamps shown, the typing
\* pause on, status "Ready" without accent, isSending false and no timer.
C26_InitialState ==
    /\ messages = <<>>
    /\ selectedModel = "nova-3"
    /\ selectedModel = models[1].id
    /\ tone = "Balanced"
    /\ showTimestamps = TRUE
    /\ typingPause = TRUE
    /\ status = [text |-> <<"Ready">>, accent |-> FALSE]
    /\ isSending = FALSE
    /\ timers = <<>>
    /\ typingTimeout = 0
    /\ [][TRUE]_vars

\* the session as constructed: nothing typed, sent or scheduled yet
C26_Witness ==
    /\ messages = <<>>
    /\ input = <<>>
    /\ timers = <<>>
    /\ status = Ready
    /\ selectedModel = "nova-3"
    /\ tone = "Balanced"
    /\ showTimestamps
    /\ typingPause
    /\ ~isSending

\* C27: a clear leaves the selected model, the tone, showTimestamps and the
\* typing pause as they were, in every state, also while a reply is pending.
C27_ClearKeepsSettings ==
    [][handleClear =>
          /\ selectedModel' = selectedModel
          /\ tone' = tone
          /\ showTimestamps' = showTimestamps
          /\ typingPause' = typingPause]_vars

\* a pending reply was cancelled by clear and the settings, all changed from
\* their defaults, are still in place
C27_Witness ==
    /\ messages = <<>>
    /\ TimersIn(timers, "cancelled") # {}
    /\ status = Ready
    /\ selectedModel = "nova-3-mini"
    /\ tone = "Playful"
    /\ ~showTimestamps
    /\ ~typingPause

\* C28: every user message of the log has a non-empty text without leading
\* or trailing whitespace, and the reply after it echoes exactly that text
\* between the lead line and the body.
C28_UserTextTrimmed ==
    \A i \in 1..Len(messages) :
        /\ messages[i].role = "user" =>
              /\ messages[i].text # <<>>
              /\ messages[i].text[1] \notin WhiteSpace
              /\ messages[i].text[Len(messages[i].text)] \notin WhiteSpace
        /\ messages[i].role = "ai" =>
              LET prompt == messages[i - 1].text
                  reply  == messages[i].text
              IN  /\ reply[2] = " "
                  /\ SubSeq(reply, 3, 2 + Len(prompt)) = prompt
                  /\ reply[3 + Len(prompt)] = "\n\n"

\* the prompt "a" is in the log with its reply: it was typed as " a " (no
\* other raw text trims to it)
C28_Witness ==
    /\ Len(messages) = 2
    /\ messages[1] = [role |-> "user", text |-> <<"a">>]
    /\ messages[2].role = "ai"
    /\ messages[2].text[3] = "a"

\* C29: in the variant without a delay the log always has even length, the
\* roles alternate user, assistant, nothing is ever pending, the first reply
\* is the fixed greeting and every later reply the fixed "Got it!" text.
C29_SendAppendsPairs ==
    /\ Len(messages) % 2 = 0
    /\ isSending = FALSE
    /\ timers = <<>>
    /\ \A i \in 1..Len(messages) :
          /\ messages[i].role = IF i % 2 = 1 THEN "user" ELSE "assistant"
          /\ i = 2 => messages[i].text =
                <<"I'm ready to help! What would you like to know more about?">>
          /\ (i % 2 = 0 /\ i > 2) => messages[i].text =
                <<"Got it! I'll take a look and get back to you.">>

\* two sends: the greeting answers the first, "Got it!" the second
C29_Witness ==
    /\ Len(messages) = 4
    /\ messages[2].text[1] = "I'm ready to help! What would you like to know more about?"
    /\ messages[4].text[1] = "Got it! I'll take a look and get back to you."
    /\ messages[3].role = "user"

====
